---- MODULE Spec2Model ----
(***************************************************************************)
(* PetSolver (src/src/petclaw/solver.py): the parallel solver base class   *)
(* of PetClaw.  The model has three parts, each with its own               *)
(* specification over the same variables:                                  *)
(*   Spec     ghost-cell exchange: append_ghost_cells,                     *)
(*            append_ghost_cells_to_aux, set_global_q, on a structured     *)
(*            grid decomposed into slabs over the processes;               *)
(*   SpecCFL  communicateCFL, the max-reduction of the CFL number;         *)
(*   SpecRK   allocate_rk_stages.                                          *)
(* Arrays are functions from 0-based index tuples (as numpy indexes them)  *)
(* to values; PETSc vectors' local arrays are flat sequences.              *)
(***************************************************************************)
EXTENDS Integers, Sequences, FiniteSets, TLC

VARIABLES
    \* ---- ghost-cell exchange (one State and one solver per process) ----
    grid,        \* the decomposed grid: ndim, global cell counts N, the split
                 \* axis, and per process the offset lo[p] and cell counts ng[p]
    mbc,         \* self.mbc, the ghost width (= the DAs' stencil width)
    meqn,        \* state.meqn
    maux,        \* state.maux
    gqVec,       \* state.gqVec, the global vector of q (all processes' parts)
    gauxVec,     \* state.gauxVec
    lqVec,       \* lqVec[p]: state.lqVec's array on process p (flat)
    lauxVec,     \* lauxVec[p]: state.lauxVec's array on process p (flat)
    q,           \* q[p]: the array set_global_q last assigned to state.q
    pc,          \* pc[p]: where process p is inside a method
    ret,         \* ret[p]: outcome of the last method that returned on p
    calls,       \* number of method calls started so far
    scatQ,       \* history: gqVec as it was when p's last q scatter ran
    lastSet,     \* history: lastSet[p] = s when p's last successful
                 \* set_global_q was given GhostedInput(p, s); 0 before any
    seenSet,     \* history: lastSet as it was when p's last q scatter ran
    \* ---- communicateCFL ----
    cfl,         \* cfl[p]: self.cfl on process p
    dt_variable, \* dt_variable[p]: self.dt_variable on process p
    cpc,         \* cpc[p]: "step" (computing a time step), "call" (about to
                 \* call communicateCFL) or "reduce" (inside cflVec.max())
    step,        \* step[p]: number of communicateCFL calls p has made
    contrib,     \* contrib[s]: the entries of cflVec in reduction s, a function
                 \* from the processes that have entered it to their cfl;
                 \* empty again once every process has left the reduction
    cflIn,       \* history: cflIn[s][p] is cfl[p] when p began its call s with
                 \* dt_variable true, kept while a process is still at step s
    \* ---- allocate_rk_stages ----
    time_integrator, \* self.time_integrator
    rk_stages,   \* self.rk_stages, a sequence of State records
    sol,         \* solutions['n'].states[0]
    rkmbc,       \* self.mbc of the solver allocating stages
    nextId,      \* identity of the next State object constructed
    rkret,       \* outcome of the last allocate_rk_stages call
    rkcalls,     \* number of allocate_rk_stages calls so far
    prevStages   \* history: self.rk_stages before the last call

haloVars == <<grid, mbc, meqn, maux, gqVec, gauxVec, lqVec, lauxVec, q, pc,
              ret, calls, scatQ, lastSet, seenSet>>
cflVars  == <<cfl, dt_variable, cpc, step, contrib, cflIn>>
rkVars   == <<time_integrator, rk_stages, sol, rkmbc, nextId, rkret, rkcalls,
              prevStages>>
vars     == <<haloVars, cflVars, rkVars>>

----------------------------------------------------------------------------
(* Bounds of the model *)

NProcs   == 2   \* processes of the communicator
MaxCells == 4   \* cells of the global grid (product of its cell counts)
MaxMbc   == 1   \* ghost widths 0..MaxMbc
MaxMeqn  == 2   \* components per cell: meqn in 1..MaxMeqn, maux = meqn - 1
MaxEntries == 6 \* entries of the global vector of q (meqn times the cells)
MaxCalls == 2   \* method calls in one behaviour of Spec and of SpecRK
MaxCfl   == 1   \* CFL numbers 0..MaxCfl
MaxSteps == 2   \* time steps (communicateCFL calls) per process

Procs == 1..NProcs

Max2(a, b) == IF a >= b THEN a ELSE b
Min2(a, b) == IF a <= b THEN a ELSE b

----------------------------------------------------------------------------
(* numpy arrays *)

\* Number of elements of an array of shape dims.
RECURSIVE Size(_)
Size(dims) == IF Len(dims) = 0 THEN 1 ELSE Head(dims) * Size(Tail(dims))

\* Offset of index idx in the flat buffer of a Fortran-ordered array of shape
\* dims: the first coordinate varies fastest.
RECURSIVE FOffset(_, _)
FOffset(idx, dims) ==
    IF Len(idx) = 0 THEN 0
    ELSE Head(idx) + Head(dims) * FOffset(Tail(idx), Tail(dims))

\* Offset of idx in a C-ordered array: the last coordinate varies fastest.
RECURSIVE COffset(_, _)
COffset(idx, dims) ==
    IF Len(idx) = 0 THEN 0
    ELSE Head(idx) * Size(Tail(dims)) + COffset(Tail(idx), Tail(dims))

\* Index of element k (0-based) of the flat buffer, first coordinate fastest:
\* the layout of a DA's vectors (component, then x, then y, then z).
RECURSIVE Unravel(_, _)
Unravel(k, dims) ==
    IF Len(dims) = 0 THEN << >>
    ELSE <<k % Head(dims)>> \o Unravel(k \div Head(dims), Tail(dims))

\* The index tuples of an array of shape dims (0-based, as numpy's).
Indices(dims) == {Unravel(k, dims) : k \in 0..(Size(dims) - 1)}

Array(dims, f) == [shape |-> dims, at |-> f]
EmptyArray == Array(<<0>>, [idx \in Indices(<<0>>) |-> 0])

ReshapeC(v, dims) ==
    Array(dims, [idx \in Indices(dims) |-> v[1 + COffset(idx, dims)]])

\* v.reshape(dims, order='F')
Reshape(v, dims) ==
    Array(dims, [idx \in Indices(dims) |-> v[1 + FOffset(idx, dims)]])

\* Python's reading of one bound i of a slice of an axis of length L.
SliceBound(i, L) == IF i < 0 THEN Max2(L + i, 0) ELSE Min2(i, L)

\* a[:, r[1][1]:r[1][2], ..., r[n][1]:r[n][2]] for an array a of n+1
\* dimensions; the r[i] are slice bounds as Python reads them (SliceBound).
Slice(a, r) ==
    LET dims == [i \in 1..Len(a.shape) |->
                    IF i = 1 THEN a.shape[1]
                    ELSE Max2(r[i - 1][2] - r[i - 1][1], 0)]
    IN  Array(dims,
              [idx \in Indices(dims) |->
                  a.at[[i \in 1..Len(idx) |->
                          IF i = 1 THEN idx[1] ELSE idx[i] + r[i - 1][1]]]])

----------------------------------------------------------------------------
(* The decomposed grid and the distributed arrays *)

NdimVals == {1, 2, 3}

RECURSIVE SumTo(_, _)
SumTo(f, n) == IF n = 0 THEN 0 ELSE f[n] + SumTo(f, n - 1)

\* The grids: 1 to 3 dimensions, N[i] cells along axis i, cut into NProcs
\* slabs along one axis, process p holding sz[p] >= 1 cells of that axis
\* from lo[p] on.  (A communicator of 2 or 3 processes admits no other
\* Cartesian process grid.)
Grids ==
    UNION {
      UNION {
        UNION {
          { [ndim |-> n, N |-> N, axis |-> a,
             lo |-> [p \in Procs |-> SumTo(sz, p - 1)],
             ng |-> [p \in Procs |->
                        [i \in 1..n |-> IF i = a THEN sz[p] ELSE N[i]]]] :
            sz \in {f \in [Procs -> 1..N[a]] : SumTo(f, NProcs) = N[a]} }
          : a \in 1..n }
        : N \in {s \in [1..n -> 1..MaxCells] : Size(s) <= MaxCells} }
      : n \in NdimVals }

\* Shape of q (aux) with ghost cells on process p: ncomp first, then the
\* local cell counts widened by mbc on both sides.
GhostedDim(ncomp, p) ==
    <<ncomp>> \o [i \in 1..grid.ndim |-> grid.ng[p][i] + 2 * mbc]

q_dim(p) == GhostedDim(meqn, p)
aux_dim(p) == GhostedDim(maux, p)

\* The global cell under local ghosted index idx (component first) of p.
GlobalIndex(idx, p) ==
    [i \in 1..Len(idx) |->
        IF i = 1 THEN idx[1]
        ELSE idx[i] - mbc + (IF i - 1 = grid.axis THEN grid.lo[p] ELSE 0)]

InDomain(gidx) ==
    \A i \in 2..Len(gidx) : gidx[i] >= 0 /\ gidx[i] < grid.N[i - 1]

\* da.globalToLocal(gvec, lvec) on process p: every cell of the local
\* vector that lies inside the global grid (the process's own cells and the
\* ghost cells inside neighbouring subdomains) gets the global vector's
\* value; ghost cells outside the grid keep what the local vector held.
globalToLocal(ncomp, gvec, lvec, p) ==
    LET dims == GhostedDim(ncomp, p)
    IN  [k \in 1..Len(lvec) |->
            LET gidx == GlobalIndex(Unravel(k - 1, dims), p)
            IN  IF InDomain(gidx) THEN gvec[gidx] ELSE lvec[k]]

\* Assignment to the property state.q on process p: the array is written
\* into the process's part of the global vector.
SetQ(gvec, p, a) ==
    [gidx \in DOMAIN gvec |->
        LET idx == [i \in 1..Len(gidx) |->
                      IF i - 1 = grid.axis THEN gidx[i] - grid.lo[p]
                      ELSE gidx[i]]
        IN  IF idx \in DOMAIN a.at THEN a.at[idx] ELSE gvec[gidx]]

\* The process's part of a global vector, as an array without ghost cells.
Owned(ncomp, gvec, p) ==
    LET dims == <<ncomp>> \o grid.ng[p]
    IN  Array(dims,
              [idx \in Indices(dims) |->
                  gvec[[i \in 1..Len(idx) |->
                          IF i - 1 = grid.axis THEN idx[i] + grid.lo[p]
                          ELSE idx[i]]]])

\* The ghosted array a caller passes to set_global_q on process p in call
\* number s: every call brings values of its own.
GhostedInput(p, s) ==
    Array(q_dim(p),
          [idx \in Indices(q_dim(p)) |-> 1000 * s + FOffset(idx, q_dim(p))])

Outcome(k, a) == [kind |-> k, val |-> a]

----------------------------------------------------------------------------
(* PetSolver's ghost-cell methods *)

\* set_global_q with the 1D branch taken whatever the dimension.
SlicedQNoRaise(p, ghosted_q) ==
    [raised |-> FALSE,
     val |-> Slice(ghosted_q,
               [i \in 1..grid.ndim |->
                   <<SliceBound(mbc, ghosted_q.shape[i + 1]),
                     SliceBound(0 - mbc, ghosted_q.shape[i + 1])>>])]

\* set_global_q slicing one cell too far to the left.
SlicedQShifted(p, ghosted_q) ==
    LET g == grid.ng[p]
    IN  IF grid.ndim \in {1, 2}
        THEN [raised |-> FALSE,
              val |-> Slice(ghosted_q,
                        [i \in 1..grid.ndim |->
                            <<SliceBound(mbc - 1, ghosted_q.shape[i + 1]),
                              SliceBound(g[i] + mbc - 1,
                                         ghosted_q.shape[i + 1])>>])]
        ELSE [raised |-> TRUE, val |-> EmptyArray]

\* set_global_q, lines 45-53: the array assigned to state.q, or the raise.
SlicedQ(p, ghosted_q) ==
    IF grid.ndim = 1
    THEN [raised |-> FALSE,
          val |-> Slice(ghosted_q,
                    << <<SliceBound(mbc, ghosted_q.shape[2]),
                         SliceBound(0 - mbc, ghosted_q.shape[2])>> >>)]
    ELSE IF grid.ndim = 2
    THEN LET mx == grid.ng[p][1]
             my == grid.ng[p][2]
         IN  [raised |-> FALSE,
              val |-> Slice(ghosted_q,
                        << <<SliceBound(mbc, ghosted_q.shape[2]),
                             SliceBound(mx + mbc, ghosted_q.shape[2])>>,
                           <<SliceBound(mbc, ghosted_q.shape[3]),
                             SliceBound(my + mbc, ghosted_q.shape[3])>> >>)]
    ELSE [raised |-> TRUE, val |-> EmptyArray]

\* append_ghost_cells entered, its scatter left out: the local vector is
\* read as it stands.
append_ghost_cells_unscattered(p) ==
    /\ pc[p] = "idle"
    /\ calls < MaxCalls
    /\ calls' = calls + 1
    /\ pc' = [pc EXCEPT ![p] = "q"]
    /\ scatQ' = [scatQ EXCEPT ![p] = gqVec]
    /\ seenSet' = [seenSet EXCEPT ![p] = lastSet]
    /\ UNCHANGED <<grid, mbc, meqn, maux, gqVec, gauxVec, lqVec, lauxVec, q,
                   ret, lastSet>>
    /\ UNCHANGED <<cflVars, rkVars>>

\* append_ghost_cells, line 28: the scatter.
append_ghost_cells_scatter(p) ==
    /\ pc[p] = "idle"
    /\ calls < MaxCalls
    /\ calls' = calls + 1
    /\ lqVec' = [lqVec EXCEPT ![p] = globalToLocal(meqn, gqVec, @, p)]
    /\ pc' = [pc EXCEPT ![p] = "q"]
    /\ scatQ' = [scatQ EXCEPT ![p] = gqVec]
    /\ seenSet' = [seenSet EXCEPT ![p] = lastSet]
    /\ UNCHANGED <<grid, mbc, meqn, maux, gqVec, gauxVec, lauxVec, q, ret,
                   lastSet>>
    /\ UNCHANGED <<cflVars, rkVars>>

\* append_ghost_cells, lines 29-32: reshape the local vector and return.
append_ghost_cells(p) ==
    /\ pc[p] = "q"
    /\ ret' = [ret EXCEPT ![p] = Outcome("q", Reshape(lqVec[p], q_dim(p)))]
    /\ pc' = [pc EXCEPT ![p] = "idle"]
    /\ UNCHANGED <<grid, mbc, meqn, maux, gqVec, gauxVec, lqVec, lauxVec, q,
                   calls, scatQ, lastSet, seenSet>>
    /\ UNCHANGED <<cflVars, rkVars>>

\* append_ghost_cells_to_aux, line 64: the scatter.
append_ghost_cells_to_aux_scatter(p) ==
    /\ pc[p] = "idle"
    /\ calls < MaxCalls
    /\ calls' = calls + 1
    /\ lauxVec' = [lauxVec EXCEPT ![p] = globalToLocal(maux, gauxVec, @, p)]
    /\ pc' = [pc EXCEPT ![p] = "aux"]
    /\ UNCHANGED <<grid, mbc, meqn, maux, gqVec, gauxVec, lqVec, q, ret,
                   scatQ, lastSet, seenSet>>
    /\ UNCHANGED <<cflVars, rkVars>>

\* append_ghost_cells_to_aux, lines 65-68.
append_ghost_cells_to_aux(p) ==
    /\ pc[p] = "aux"
    /\ ret' = [ret EXCEPT
                 ![p] = Outcome("aux", Reshape(lauxVec[p], aux_dim(p)))]
    /\ pc' = [pc EXCEPT ![p] = "idle"]
    /\ UNCHANGED <<grid, mbc, meqn, maux, gqVec, gauxVec, lqVec, lauxVec, q,
                   calls, scatQ, lastSet, seenSet>>
    /\ UNCHANGED <<cflVars, rkVars>>

\* set_global_q(state, ghosted_q) on process p, with
\* ghosted_q = GhostedInput(p, s).
set_global_q(p, s) ==
    LET ghosted_q == GhostedInput(p, s)
        r == SlicedQ(p, ghosted_q)
    IN  /\ pc[p] = "idle"
        /\ calls < MaxCalls
        /\ calls' = calls + 1
        /\ IF r.raised
           THEN /\ ret' = [ret EXCEPT
                             ![p] = Outcome("NotImplementedError", EmptyArray)]
                /\ UNCHANGED <<q, gqVec, lastSet>>
           ELSE /\ q' = [q EXCEPT ![p] = r.val]
                /\ gqVec' = SetQ(gqVec, p, r.val)
                /\ lastSet' = [lastSet EXCEPT ![p] = s]
                /\ ret' = [ret EXCEPT ![p] = Outcome("set", ghosted_q)]
        /\ UNCHANGED <<grid, mbc, meqn, maux, gauxVec, lqVec, lauxVec, pc,
                       scatQ, seenSet>>
        /\ UNCHANGED <<cflVars, rkVars>>

----------------------------------------------------------------------------
(* communicateCFL *)

CflVals == 0..MaxCfl

\* The reduction a call of process p takes part in.  Collectives on a
\* communicator match in the order each process calls them, and a process
\* with dt_variable true enters one in every call.
Reduction(p) == step[p] + 1

MaxOf(S) == CHOOSE m \in S : \A x \in S : x <= m
MinOf(S) == CHOOSE m \in S : \A x \in S : m <= x

\* Vec.max() of the parallel vector with entries c[p]: (location, value), the
\* location being the 0-based global index of the first maximal entry.
VecMax(c) ==
    LET v == MaxOf({c[r] : r \in DOMAIN c})
    IN  <<MinOf({r \in DOMAIN c : c[r] = v}) - 1, v>>

\* Line 81 reading the location, cflVec.max()[0], instead of the value.
ReducedCFLIndex(c) == VecMax(c)[1]

\* Line 81: cflVec.max()[1].
ReducedCFL(c) == VecMax(c)[2]

ParticipatesAlways(p) == TRUE

\* Line 79: if self.dt_variable.
Participates(p) == dt_variable[p]

\* A reduction completing as soon as the process itself has entered it.
ReductionCompleteLocal(k) == TRUE

\* The collective of reduction k completes once every process of the
\* communicator has entered it.
ReductionComplete(k) == DOMAIN contrib[k] = Procs

\* Every process other than p is past step s: it has begun a later call.
OthersPast(p, s) ==
    \A r \in Procs \ {p} : step[r] > s \/ (step[r] = s /\ cpc[r] # "step")

\* The solver takes a time step on process p, leaving a new CFL number in
\* self.cfl, and goes on to call communicateCFL.
take_step(p, c) ==
    /\ cpc[p] = "step"
    /\ step[p] < MaxSteps
    /\ cfl' = [cfl EXCEPT ![p] = c]
    /\ cpc' = [cpc EXCEPT ![p] = "call"]
    /\ cflIn' = IF step[p] >= 1 /\ OthersPast(p, step[p])
                THEN [cflIn EXCEPT ![step[p]] = [r \in Procs |-> 0]]
                ELSE cflIn
    /\ UNCHANGED <<dt_variable, step, contrib>>
    /\ UNCHANGED <<haloVars, rkVars>>

\* communicateCFL, lines 79-80: with dt_variable false, return at once;
\* otherwise put self.cfl into cflVec and enter the reduction.
communicateCFL_enter(p) ==
    /\ cpc[p] = "call"
    /\ cflIn' = IF dt_variable[p]
                THEN [cflIn EXCEPT ![step[p] + 1][p] = cfl[p]]
                ELSE cflIn
    /\ IF Participates(p)
       THEN /\ contrib' = [contrib EXCEPT
                             ![Reduction(p)] = (p :> cfl[p]) @@ @]
            /\ cpc' = [cpc EXCEPT ![p] = "reduce"]
            /\ UNCHANGED step
       ELSE /\ cpc' = [cpc EXCEPT ![p] = "step"]
            /\ step' = [step EXCEPT ![p] = @ + 1]
            /\ UNCHANGED contrib
    /\ UNCHANGED <<cfl, dt_variable>>
    /\ UNCHANGED <<haloVars, rkVars>>

\* communicateCFL, line 81: the reduction completes and its value is stored.
communicateCFL_return(p) ==
    /\ cpc[p] = "reduce"
    /\ ReductionComplete(Reduction(p))
    /\ cfl' = [cfl EXCEPT ![p] = ReducedCFL(contrib[Reduction(p)])]
    /\ cpc' = [cpc EXCEPT ![p] = "step"]
    /\ step' = [step EXCEPT ![p] = @ + 1]
    /\ contrib' = IF \A r \in Procs \ {p} : step[r] >= Reduction(p)
                  THEN [contrib EXCEPT ![Reduction(p)] = << >>]
                  ELSE contrib
    /\ UNCHANGED <<dt_variable, cflIn>>
    /\ UNCHANGED <<haloVars, rkVars>>

----------------------------------------------------------------------------
(* allocate_rk_stages *)

Integrators == {"Euler", "SSP33", "SSP104", "other"}

\* Lines 92-94; 0 stands for nregisters never having been assigned.
nregisters(ti) ==
    IF ti = "Euler" THEN 1
    ELSE IF ti = "SSP33" THEN 2
    ELSE IF ti = "SSP104" THEN 3
    ELSE 0

\* State(state.grid): a new object on the grid; the attributes this method
\* has not assigned yet are "unset".
NewState(id, g) ==
    [id |-> id, grid |-> g, meqn |-> 0, maux |-> 0, stencil_width |-> 0 - 1,
     aux_global |-> "unset", t |-> 0 - 1, aux |-> "unset"]

\* Lines 99-106: one stage, built from state = solutions['n'].states[0].
Stage(id, state) ==
    LET s0 == [NewState(id, state.grid) EXCEPT
                  !.meqn = state.meqn, !.maux = state.maux,
                  !.stencil_width = rkmbc,
                  !.aux_global = state.aux_global, !.t = state.t]
    IN  IF state.maux > 0 THEN [s0 EXCEPT !.aux = state.aux] ELSE s0

\* The loop of lines 98-106 appending to the list it found.
StagesAccumulated(old, n) ==
    old \o [i \in 1..n |-> Stage(nextId + i - 1, sol)]

\* Lines 97-106: the list is reset, then n stages are appended.
Stages(old, n) == [i \in 1..n |-> Stage(nextId + i - 1, sol)]

\* On the error the list is left as it was.
StagesOnErrorKept(old) == old

\* Line 97 runs before line 98 fails: the list is empty at the error.
StagesOnError(old) == << >>

\* allocate_rk_stages(solutions)
allocate_rk_stages ==
    LET n == nregisters(time_integrator)
    IN  /\ rkcalls < MaxCalls
        /\ rkcalls' = rkcalls + 1
        /\ prevStages' = rk_stages
        /\ IF n = 0
           THEN /\ rk_stages' = StagesOnError(rk_stages)
                /\ rkret' = "UnboundLocalError"
                /\ UNCHANGED nextId
           ELSE /\ rk_stages' = Stages(rk_stages, n - 1)
                /\ rkret' = "ok"
                /\ nextId' = nextId + (n - 1)
        /\ UNCHANGED <<time_integrator, sol, rkmbc>>
        /\ UNCHANGED <<haloVars, cflVars>>

\* The user selects another time integrator.
set_time_integrator(ti) ==
    /\ ti # time_integrator
    /\ time_integrator' = ti
    /\ UNCHANGED <<rk_stages, sol, rkmbc, nextId, rkret, rkcalls, prevStages>>
    /\ UNCHANGED <<haloVars, cflVars>>

\* The solution advances in time.
advance_time ==
    /\ sol.t < rkcalls
    /\ sol' = [sol EXCEPT !.t = @ + 1]
    /\ UNCHANGED <<time_integrator, rk_stages, rkmbc, nextId, rkret, rkcalls,
                   prevStages>>
    /\ UNCHANGED <<haloVars, cflVars>>

----------------------------------------------------------------------------
(* Initial states and specifications *)

\* The ghost-cell part at rest (in the specifications of the other parts).
HaloParked ==
    /\ grid = CHOOSE g \in Grids : g.ndim = 1 /\ g.N[1] = NProcs
    /\ mbc = 0 /\ meqn = 1 /\ maux = 0
    /\ gqVec = [idx \in Indices(<<meqn>> \o grid.N) |-> 0]
    /\ gauxVec = [idx \in Indices(<<maux>> \o grid.N) |-> 0]
    /\ lqVec = [p \in Procs |-> [k \in 1..Size(q_dim(p)) |-> 0]]
    /\ lauxVec = [p \in Procs |-> [k \in 1..Size(aux_dim(p)) |-> 0]]
    /\ q = [p \in Procs |-> Owned(meqn, gqVec, p)]
    /\ pc = [p \in Procs |-> "idle"]
    /\ ret = [p \in Procs |-> Outcome("none", EmptyArray)]
    /\ calls = MaxCalls
    /\ scatQ = [p \in Procs |-> gqVec]
    /\ lastSet = [p \in Procs |-> 0]
    /\ seenSet = [p \in Procs |-> lastSet]

CFLParked ==
    /\ cfl = [p \in Procs |-> 0]
    /\ dt_variable = [p \in Procs |-> FALSE]
    /\ cpc = [p \in Procs |-> "step"]
    /\ step = [p \in Procs |-> MaxSteps]
    /\ contrib = [k \in 1..MaxSteps |-> << >>]
    /\ cflIn = [k \in 1..MaxSteps |-> [p \in Procs |-> 0]]

RKParked ==
    /\ time_integrator = "Euler"
    /\ rk_stages = << >>
    /\ sol = [id |-> 0, grid |-> "grid", meqn |-> 1, maux |-> 0,
              aux_global |-> "aux_global", t |-> 0, aux |-> "None"]
    /\ rkmbc = 0
    /\ nextId = 1
    /\ rkret = "none"
    /\ rkcalls = MaxCalls
    /\ prevStages = << >>

\* A grid decomposed over the processes, the DAs built with stencil width
\* mbc (no slab thinner than the stencil), the global vectors filled, the
\* local vectors still zero.
Init ==
    /\ grid \in Grids
    /\ mbc \in 0..MaxMbc
    /\ \A p \in Procs : grid.ng[p][grid.axis] >= mbc
    /\ meqn \in 1..MaxMeqn
    /\ meqn * Size(grid.N) <= MaxEntries
    /\ maux = meqn - 1
    /\ gqVec = [idx \in Indices(<<meqn>> \o grid.N) |->
                   1 + FOffset(idx, <<meqn>> \o grid.N)]
    /\ gauxVec = [idx \in Indices(<<maux>> \o grid.N) |->
                   501 + FOffset(idx, <<maux>> \o grid.N)]
    /\ lqVec = [p \in Procs |-> [k \in 1..Size(q_dim(p)) |-> 0]]
    /\ lauxVec = [p \in Procs |-> [k \in 1..Size(aux_dim(p)) |-> 0]]
    /\ q = [p \in Procs |-> Owned(meqn, gqVec, p)]
    /\ pc = [p \in Procs |-> "idle"]
    /\ ret = [p \in Procs |-> Outcome("none", EmptyArray)]
    /\ calls = 0
    /\ scatQ = [p \in Procs |-> gqVec]
    /\ lastSet = [p \in Procs |-> 0]
    /\ seenSet = [p \in Procs |-> lastSet]
    /\ CFLParked
    /\ RKParked

Next ==
    \E p \in Procs :
        \/ append_ghost_cells_scatter(p)
        \/ append_ghost_cells(p)
        \/ append_ghost_cells_to_aux_scatter(p)
        \/ append_ghost_cells_to_aux(p)
        \/ set_global_q(p, calls + 1)

Spec == Init /\ [][Next]_vars

InitCFL ==
    /\ HaloParked
    /\ RKParked
    /\ cfl = [p \in Procs |-> 0]
    /\ dt_variable \in [Procs -> BOOLEAN]
    /\ cpc = [p \in Procs |-> "step"]
    /\ step = [p \in Procs |-> 0]
    /\ contrib = [k \in 1..MaxSteps |-> << >>]
    /\ cflIn = [k \in 1..MaxSteps |-> [p \in Procs |-> 0]]

ProcCFL(p) ==
    \/ \E c \in CflVals : take_step(p, c)
    \/ communicateCFL_enter(p)
    \/ communicateCFL_return(p)

NextCFL == \E p \in Procs : ProcCFL(p)

\* Every process keeps running: a step it can take is eventually taken.
SpecCFL == InitCFL /\ [][NextCFL]_vars /\ \A p \in Procs : WF_vars(ProcCFL(p))

InitRK ==
    /\ HaloParked
    /\ CFLParked
    /\ time_integrator \in Integrators
    /\ rk_stages = << >>
    /\ sol \in [id : {0}, grid : {"grid"}, meqn : 1..MaxMeqn,
                maux : 0..(MaxMeqn - 1), aux_global : {"aux_global"},
                t : {0}, aux : {"None", "aux"}]
    /\ rkmbc \in 0..MaxMbc
    /\ nextId = 1
    /\ rkret = "none"
    /\ rkcalls = 0
    /\ prevStages = << >>

NextRK ==
    \/ allocate_rk_stages
    \/ \E ti \in Integrators : set_time_integrator(ti)
    \/ advance_time

SpecRK == InitRK /\ [][NextRK]_vars

----------------------------------------------------------------------------
(* Properties of the ghost-cell methods (specification Spec) *)

\* The index tuples of shape dims, by enumeration and filter.
Box(dims) ==
    {s \in [1..Len(dims) -> 0..MaxOf({dims[i] : i \in 1..Len(dims)})] :
        \A i \in 1..Len(dims) : s[i] < dims[i]}

RECURSIVE Stride(_, _)
Stride(dims, i) == IF i = 1 THEN 1 ELSE dims[i - 1] * Stride(dims, i - 1)

RECURSIVE DotStride(_, _, _)
DotStride(idx, dims, i) ==
    IF i = 0 THEN 0 ELSE idx[i] * Stride(dims, i) + DotStride(idx, dims, i - 1)

\* Position in the flat vector of index idx, the first coordinate having
\* stride 1, the second stride dims[1], the third dims[1] * dims[2], ...
ColumnMajor(idx, dims) == 1 + DotStride(idx, dims, Len(dims))

\* The global index of cell j (component first) of process o's own cells.
GlobalOf(j, o) ==
    [i \in 1..Len(j) |->
        IF i - 1 = grid.axis THEN j[i] + grid.lo[o] ELSE j[i]]

\* Where global index gidx sits in the ghosted array of process r.
LocalOf(gidx, r) ==
    [i \in 1..Len(gidx) |->
        IF i = 1 THEN gidx[1]
        ELSE gidx[i] + mbc - (IF i - 1 = grid.axis THEN grid.lo[r] ELSE 0)]

\* The array a process holds as the result of its last append_ghost_cells
\* (append_ghost_cells_to_aux), no newer scatter of the same vector having
\* run on it since.
HasGhostedQ(p) == ret[p].kind = "q" /\ pc[p] # "q"
HasGhostedAux(p) == ret[p].kind = "aux" /\ pc[p] # "aux"

\* Array a, the ghosted array of process r, holds in every cell of process
\* o's subdomain that it covers the value global vector gvec has there.
AgreesOn(a, r, o, ncomp, gvec) ==
    \A j \in Box(<<ncomp>> \o grid.ng[o]) :
        LET l == LocalOf(GlobalOf(j, o), r)
        IN  l \in Box(a.shape) =>
               /\ l \in DOMAIN a.at
               /\ a.at[l] = gvec[GlobalOf(j, o)]

\* C1: when append_ghost_cells (append_ghost_cells_to_aux) has returned on
\* a process, every interior cell of the returned array equals the
\* process's own cell of the global vector, and every ghost cell lying in
\* another process's subdomain equals that process's cell, the global vector
\* being taken as it was when the scatter ran (gauxVec is written by no
\* method of the solver, so it is what it was).
C1_HaloExchanged ==
    \A r \in Procs :
        /\ HasGhostedQ(r) =>
              \A o \in Procs : AgreesOn(ret[r].val, r, o, meqn, scatQ[r])
        /\ HasGhostedAux(r) =>
              \A o \in Procs : AgreesOn(ret[r].val, r, o, maux, gauxVec)

\* A process has got its ghosted q back, with ghost cells inside a
\* neighbour's subdomain, and the neighbour has written the global vector
\* between the scatter and the return.
C1_Witness ==
    \E r \in Procs :
        /\ HasGhostedQ(r) /\ pc[r] = "idle"
        /\ mbc >= 1
        /\ scatQ[r] # gqVec
        /\ \E o \in Procs \ {r} : \E j \in Box(<<meqn>> \o grid.ng[o]) :
               LocalOf(GlobalOf(j, o), r) \in DOMAIN ret[r].val.at

\* Array a is vector v in column-major order with shape dims.
IsColumnMajorOf(a, v, dims) ==
    /\ a.shape = dims
    /\ DOMAIN a.at = Box(dims)
    /\ Cardinality(DOMAIN a.at) = Len(v)
    /\ \A idx \in DOMAIN a.at :
          /\ ColumnMajor(idx, dims) \in 1..Len(v)
          /\ a.at[idx] = v[ColumnMajor(idx, dims)]
    /\ {ColumnMajor(idx, dims) : idx \in DOMAIN a.at} = 1..Len(v)

\* C2: the array append_ghost_cells returns has shape (meqn, ng[0]+2*mbc,
\* ..., ng[ndim-1]+2*mbc), that of append_ghost_cells_to_aux (maux, ...);
\* element k of the local vector is at the index whose first coordinate
\* varies fastest, and every element of the local vector appears once.
C2_ShapeAndOrder ==
    \A p \in Procs :
        LET dims(ncomp) ==
                <<ncomp>> \o [i \in 1..grid.ndim |-> grid.ng[p][i] + 2 * mbc]
        IN  /\ HasGhostedQ(p) =>
                  IsColumnMajorOf(ret[p].val, lqVec[p], dims(meqn))
            /\ HasGhostedAux(p) =>
                  IsColumnMajorOf(ret[p].val, lauxVec[p], dims(maux))

\* On a 3D grid with ghost cells and two components, one process holds a
\* ghosted q and another a ghosted aux.
C2_Witness ==
    /\ grid.ndim = 3 /\ mbc >= 1 /\ meqn >= 2
    /\ \E p, o \in Procs :
          /\ HasGhostedQ(p) /\ pc[p] = "idle"
          /\ HasGhostedAux(o) /\ pc[o] = "idle"
          /\ \E k1, k2 \in 1..Len(lqVec[p]) : lqVec[p][k1] # lqVec[p][k2]

\* state.q[m, i(, j)] = ghosted_q[m, i+mbc(, j+mbc)] on process p.
IsInteriorOf(a, ghosted_q, p) ==
    /\ a.shape = <<meqn>> \o grid.ng[p]
    /\ DOMAIN a.at = Box(a.shape)
    /\ \A idx \in DOMAIN a.at :
          a.at[idx] = ghosted_q.at[[i \in 1..Len(idx) |->
                                      IF i = 1 THEN idx[1] ELSE idx[i] + mbc]]

\* C3: after set_global_q(state, ghosted_q) on a 1D or 2D grid, for every
\* ghost width mbc >= 0, state.q has shape (meqn, ng[0](, ng[1])) and
\* state.q[m, i(, j)] = ghosted_q[m, i+mbc(, j+mbc)].
C3_GhostCellsSlicedOut ==
    \A p \in Procs :
        (ret[p].kind = "set" /\ grid.ndim \in {1, 2}) =>
            IsInteriorOf(q[p], ret[p].val, p)

C6_Outcomes ==
    \A p \in Procs :
        /\ ret[p].kind = "NotImplementedError" => grid.ndim \notin {1, 2}
        /\ ret[p].kind = "set" => grid.ndim \in {1, 2}
        /\ ret[p].kind \in {"q", "aux"} => Len(ret[p].val.shape) = grid.ndim + 1

\* C6: set_global_q raises NotImplementedError exactly when grid.ndim is
\* neither 1 nor 2, and then leaves state.q (and the global vector) as they
\* were; for ndim 1 or 2 it does not raise it; append_ghost_cells and
\* append_ghost_cells_to_aux return their array on a 3D grid as well.
C6_OnlyFailureIs3D ==
    [][/\ C6_Outcomes'
       /\ (calls' = calls + 1 /\ pc' = pc) =>
             \E p \in Procs :
                 /\ ret'[p].kind \in {"set", "NotImplementedError"}
                 /\ \A o \in Procs \ {p} : ret'[o] = ret[o]
                 /\ ret'[p].kind = "NotImplementedError" =>
                       q' = q /\ gqVec' = gqVec]_vars

\* On a 3D grid one process has had set_global_q raise and another has got
\* a ghosted q back.
C6_Witness ==
    /\ grid.ndim = 3
    /\ \E p, o \in Procs :
          /\ ret[p].kind = "NotImplementedError"
          /\ ret[o].kind = "q"

----------------------------------------------------------------------------
(* Properties of communicateCFL (specification SpecCFL) *)

Agree == \A p, r \in Procs : dt_variable[p] = dt_variable[r]

\* Process r has begun its call number s.
HasBegun(r, s) == step[r] >= s \/ (step[r] = s - 1 /\ cpc[r] # "step")

\* C5: when dt_variable is true on every process, a process that has
\* returned from its call number s holds the maximum of the cfl values the
\* processes had when they began their call number s; so its cfl has not
\* decreased, and all processes back from call s hold the same cfl.
C5_MaxOverProcesses ==
    \A p \in Procs :
        ((\A r \in Procs : dt_variable[r]) /\ cpc[p] = "step" /\ step[p] >= 1)
        => LET s == step[p]
           IN  /\ \A r \in Procs : HasBegun(r, s)
               /\ \A r \in Procs : cfl[p] >= cflIn[s][r]
               /\ \E r \in Procs : cfl[p] = cflIn[s][r]
               /\ cfl[p] >= cflIn[s][p]
               /\ \A r \in Procs :
                     (cpc[r] = "step" /\ step[r] = s) => cfl[r] = cfl[p]

\* A process is back from a reduction that raised its cfl to the larger
\* cfl of another process.
C5_Witness ==
    /\ \A r \in Procs : dt_variable[r]
    /\ \E p \in Procs :
          /\ cpc[p] = "step" /\ step[p] >= 1
          /\ cfl[p] > cflIn[step[p]][p]

\* C8: communicateCFL on a process with dt_variable false returns at once
\* with self.cfl unchanged, and the process never enters a reduction.
C8_NoOpWhenFixedDt ==
    [][\A p \in Procs :
          ~dt_variable[p] =>
             /\ cpc'[p] # "reduce"
             /\ \A k \in 1..MaxSteps : p \notin DOMAIN contrib'[k]
             /\ (cpc[p] = "call" /\ cpc'[p] # "call") =>
                   /\ cpc'[p] = "step"
                   /\ step'[p] = step[p] + 1
                   /\ cfl'[p] = cfl[p]
                   /\ contrib' = contrib]_vars

\* A process with dt_variable false is back from communicateCFL while a
\* process with a larger cfl waits inside a reduction.
C8_Witness ==
    \E p, r \in Procs :
        /\ ~dt_variable[p] /\ step[p] >= 1 /\ cpc[p] = "step"
        /\ dt_variable[r] /\ cpc[r] = "reduce"
        /\ cfl[r] > cfl[p]

\* C9: with dt_variable the same on all processes, every communicateCFL
\* call eventually returns; a call leaves the reduction only when every
\* process of the communicator takes part and has entered the reduction of
\* the same step; and when the processes disagree on dt_variable, a process
\* inside the reduction stays there.
C9_SynchronousCollective ==
    /\ \A p \in Procs : (Agree /\ cpc[p] # "step") ~> (cpc[p] = "step")
    /\ [][\A p \in Procs :
             (cpc[p] = "reduce" /\ cpc'[p] # "reduce") =>
                 \A r \in Procs :
                     /\ dt_variable[r]
                     /\ \/ step[r] > step[p]
                        \/ step[r] = step[p] /\ cpc[r] = "reduce"]_vars
    /\ [][\A p \in Procs :
             (~Agree /\ cpc[p] = "reduce") => cpc'[p] = "reduce"]_vars

\* A process waits inside the reduction although every process that does
\* not take part has finished all its steps.
C9_Witness ==
    \E p \in Procs :
        /\ dt_variable[p] /\ cpc[p] = "reduce"
        /\ \E r \in Procs : ~dt_variable[r]
        /\ \A r \in Procs : ~dt_variable[r] => step[r] = MaxSteps

----------------------------------------------------------------------------
(* Properties of allocate_rk_stages (specification SpecRK) *)

StageIds(stages) == {stages[i].id : i \in 1..Len(stages)}

\* C7: a call with time_integrator 'Euler', 'SSP33' or 'SSP104' leaves in
\* self.rk_stages exactly 0, 1 or 2 stages, none of them a stage of the list
\* before the call; every stage is a State object not seen before, on the
\* grid of solutions['n'].states[0], with that state's meqn, maux,
\* aux_global and t, stencil width self.mbc, and that state's aux if
\* maux > 0, no aux otherwise.
C7_StagesRebuilt ==
    [][(rkcalls' = rkcalls + 1 /\ time_integrator \in {"Euler", "SSP33", "SSP104"})
       => /\ rkret' = "ok"
          /\ Len(rk_stages') = (IF time_integrator = "Euler" THEN 0
                                ELSE IF time_integrator = "SSP33" THEN 1
                                ELSE 2)
          /\ Cardinality(StageIds(rk_stages')) = Len(rk_stages')
          /\ StageIds(rk_stages') \cap (StageIds(rk_stages) \cup {sol.id}) = {}
          /\ \A i \in 1..Len(rk_stages') :
                LET st == rk_stages'[i]
                IN  /\ st.id >= nextId
                    /\ st.id < nextId'
                    /\ st.grid = sol.grid
                    /\ st.meqn = sol.meqn
                    /\ st.maux = sol.maux
                    /\ st.aux_global = sol.aux_global
                    /\ st.t = sol.t
                    /\ st.stencil_width = rkmbc
                    /\ (sol.maux > 0 => st.aux = sol.aux)
                    /\ (sol.maux = 0 => st.aux = "unset")]_vars

\* An 'SSP33' call has replaced the two stages of an 'SSP104' call by one,
\* at a later time, for a state with aux.
C7_Witness ==
    /\ rkret = "ok"
    /\ time_integrator = "SSP33"
    /\ Len(prevStages) = 2
    /\ Len(rk_stages) = 1
    /\ sol.maux > 0
    /\ rk_stages[1].aux = sol.aux
    /\ rk_stages[1].t > prevStages[1].t

\* C10: a call with any other time_integrator ends in an error, creates no
\* stage, and leaves self.rk_stages empty, the stages of earlier calls
\* discarded.
C10_ErrorAfterReset ==
    [][(rkcalls' = rkcalls + 1
        /\ time_integrator \notin {"Euler", "SSP33", "SSP104"})
       => /\ rkret' = "UnboundLocalError"
          /\ nextId' = nextId
          /\ rk_stages' = << >>]_vars

\* The failing call found stages of an earlier call in the list.
C10_Witness ==
    /\ rkret = "UnboundLocalError"
    /\ prevStages # << >>
    /\ rk_stages = << >>

====
